---- MODULE Spec2Model ----
(***************************************************************************)
(* The race tracker's OCR pipeline (src/js/ocr.js), its upload handler     *)
(* (src/js/app.js) and the review panel (src/js/ui.js) as a state machine. *)
(*                                                                         *)
(* Texts are sequences of one-character strings.  A placement is an        *)
(* integer: 1..18 for a rank, E for the marker 'E'.  Arrays of 15          *)
(* placements are sequences, slot i of the code being element i+1.         *)
(***************************************************************************)
EXTENDS Integers, Sequences, FiniteSets, TLC

VARIABLES
    tesseract,   \* typeof Tesseract !== 'undefined'
    pc,          \* per upload: where its asynchronous run is suspended
    file,        \* per upload: the file handed to the change handler
    pos,         \* per upload: loop position of processFocusedRankRegions
    placements,  \* per upload: the placements array of processFocusedRankRegions
    ret,         \* per upload: how processImageWithOCR ended and with what
    upl,         \* per upload: what handleImageUpload resolved to
    calls,       \* per upload: recognition calls issued so far, in all and per region
    loading,     \* the loading indicator is visible
    toasts,      \* toast messages shown so far, in order
    review,      \* the OCR review panel: visible, the values of its 15 selects
    manual,      \* the manual entry panel is visible
    order,       \* the change events in order: the upload, the runs then in flight
    pin,         \* parser harness: the input handed to a parser
    pout,        \* parser harness: what the parser returned
    stored,      \* the localStorage item 'umaTeamRaces'
    sres         \* how the last call into storage.js ended

vars == <<tesseract, pc, file, pos, placements, ret, upl, calls, loading,
          toasts, review, manual, order, pin, pout, stored, sres>>

pipeVars == <<tesseract, pc, file, pos, placements, ret, upl, calls, loading,
              toasts, review, manual, order>>

parseVars == <<pin, pout>>

storeVars == <<stored, sres>>

-----------------------------------------------------------------------------
(* Values *)

\* The marker 'E' of an unresolved slot; kept apart from every parseInt result.
E == -1

\* JavaScript's null, the "no ranking" result of detectRankingFromText.
null == -2

rows == 3

cols == 5

NSlots == rows * cols

\* Mutant of EmptyPlacements: unresolved slots start as a mid-pack filler
FilledPlacements == [i \in 1..(rows * cols) |-> 10]

\* new Array(15).fill('E')
EmptyPlacements == [i \in 1..NSlots |-> E]

IsRank(v) == v >= 1 /\ v <= 18

-----------------------------------------------------------------------------
(* Characters and the regular expressions of ocr.js *)

Digit == {"0", "1", "2", "3", "4", "5", "6", "7", "8", "9"}

NL == "\n"

\* \s of a JavaScript regular expression, as far as the texts here use it
Space == {" ", NL}

DigitVal(c) ==
    CASE c = "0" -> 0 [] c = "1" -> 1 [] c = "2" -> 2 [] c = "3" -> 3
      [] c = "4" -> 4 [] c = "5" -> 5 [] c = "6" -> 6 [] c = "7" -> 7
      [] c = "8" -> 8 [] c = "9" -> 9

\* the i flag, for the letters the suffixes use
Lower(c) ==
    CASE c = "S" -> "s" [] c = "T" -> "t" [] c = "N" -> "n" [] c = "D" -> "d"
      [] c = "R" -> "r" [] c = "H" -> "h" [] OTHER -> c

\* (?:st|nd|rd|th)
Suffixes == {<<"s", "t">>, <<"n", "d">>, <<"r", "d">>, <<"t", "h">>}

\* Mutant of MisreadTail: the opening brackets are taken as well
MisreadTailWide == {"]", ")", "|", "!", "[", "("}

\* [\]\)\|!] of detectRankingFromText
MisreadTail == {"]", ")", "|", "!"}

\* [\]\[|)(!] of parseOCRWithPositions
MisreadAny == {"]", "[", "|", ")", "(", "!"}

AllDigits(s) == \A i \in 1..Len(s) : s[i] \in Digit

RECURSIVE parseInt(_)
\* parseInt of a non-empty string of decimal digits
parseInt(s) ==
    IF Len(s) = 0 THEN 0
    ELSE parseInt(SubSeq(s, 1, Len(s) - 1)) * 10 + DigitVal(s[Len(s)])

\* text.replace(/\s+/g, '')
StripSpace(s) == SelectSeq(s, LAMBDA c : c \notin Space)

\* First position >= i of s that holds no digit (Len(s)+1 when there is none)
RunEnd(s, i) ==
    IF \E j \in i..Len(s) : s[j] \notin Digit
    THEN CHOOSE j \in i..Len(s) :
             s[j] \notin Digit /\ \A k \in i..(j - 1) : s[k] \in Digit
    ELSE Len(s) + 1

\* First position >= i of s that holds no white space
SkipSpace(s, i) ==
    IF \E j \in i..Len(s) : s[j] \notin Space
    THEN CHOOSE j \in i..Len(s) :
             s[j] \notin Space /\ \A k \in i..(j - 1) : s[k] \in Space
    ELSE Len(s) + 1

SuffixAt(s, k) ==
    k + 1 <= Len(s) /\ <<Lower(s[k]), Lower(s[k + 1])>> \in Suffixes

\* A digit run starts at i
RunStart(s, i) ==
    i \in 1..Len(s) /\ s[i] \in Digit /\ (i = 1 \/ s[i - 1] \notin Digit)

\* /(\d+)\s*(?:st|nd|rd|th)/i matches with its digits starting at i
OrdinalAt(s, i) ==
    RunStart(s, i) /\ SuffixAt(s, SkipSpace(s, RunEnd(s, i)))

\* /(\d+)[\]\[|)(!]/ matches with its digits starting at i
MisreadAt(s, i) ==
    RunStart(s, i) /\ RunEnd(s, i) <= Len(s) /\ s[RunEnd(s, i)] \in MisreadAny

\* The digits captured by a match whose digits start at i
Captured(s, i) == SubSeq(s, i, RunEnd(s, i) - 1)

\* Mutant of clampRank: the upper clamp is missing
clampRankLowOnly(n) == IF n < 1 THEN 1 ELSE n

\* clampRank: parseInt of matched digits is never NaN
clampRank(n) ==
    IF n < 1 THEN 1 ELSE IF n > 18 THEN 18 ELSE n

\* detectRankingFromText
detectRankingFromText(text) ==
    IF Len(text) = 0 THEN null
    ELSE LET t == StripSpace(text)
             d == RunEnd(t, 1) - 1
         IN  IF d \in 1..2 /\ Len(t) = d + 2 /\ SuffixAt(t, d + 1)
             THEN clampRank(parseInt(SubSeq(t, 1, d)))
             ELSE IF d \in 1..2 /\ Len(t) > d
                     /\ \A k \in (d + 1)..Len(t) : t[k] \in MisreadTail
             THEN clampRank(parseInt(SubSeq(t, 1, d)))
             ELSE IF d \in 1..2 /\ Len(t) = d
             THEN clampRank(parseInt(SubSeq(t, 1, d)))
             ELSE null

\* if (detected): null and 0 are falsy
Truthy(v) == v # null /\ v # 0

\* String.prototype.trim
Trim(s) ==
    LET a == SkipSpace(s, 1)
    IN  IF a > Len(s) THEN <<>>
        ELSE LET b == CHOOSE j \in a..Len(s) :
                          s[j] \notin Space /\ \A k \in (j + 1)..Len(s) : s[k] \in Space
             IN  SubSeq(s, a, b)

-----------------------------------------------------------------------------
(* parseOCRTextFallback: line-ordered parsing of the recognised text *)

RECURSIVE SplitLines(_)
\* text.split('\n')
SplitLines(s) ==
    IF \E j \in 1..Len(s) : s[j] = NL
    THEN LET j == CHOOSE j \in 1..Len(s) : s[j] = NL /\ \A k \in 1..(j - 1) : s[k] # NL
         IN  <<SubSeq(s, 1, j - 1)>> \o SplitLines(SubSeq(s, j + 1, Len(s)))
    ELSE <<s>>

Indices(n) == [i \in 1..n |-> i]

\* if (num >= 1 && num <= 18) of the text parsers
InRange(num) == num >= 1 /\ num <= 18

\* The matches of ordinalPattern in one line that pass the range check, in
\* the order matchAll yields them
LineMatches(line, lineNumber) ==
    LET at == SelectSeq(Indices(Len(line)),
                        LAMBDA i : OrdinalAt(line, i)
                                   /\ InRange(parseInt(Captured(line, i))))
    IN  [k \in 1..Len(at) |->
            [placement |-> parseInt(Captured(line, at[k])),
             line |-> lineNumber, index |-> at[k] - 1]]

RECURSIVE ScanLines(_, _)
\* the for loop over lines, from line n on
ScanLines(lines, n) ==
    IF n > Len(lines) THEN <<>>
    ELSE LineMatches(lines[n], n) \o ScanLines(lines, n + 1)

\* Mutant of Before: the comparator looks at the offset only
BeforeByIndex(a, b) == a.index < b.index

\* The comparator of positionsWithLines.sort is negative for (a, b)
Before(a, b) ==
    IF a.line # b.line THEN a.line < b.line ELSE a.index < b.index

\* Where s[j] stands after a stable sort with that comparator: behind the
\* elements that come before it, and behind its equals of smaller index
SortedIndex(s, j) ==
    1 + Cardinality({i \in 1..Len(s) :
                        Before(s[i], s[j]) \/ (~Before(s[j], s[i]) /\ i < j)})

\* Array.prototype.sort with that comparator (stable)
SortPositions(s) ==
    [k \in 1..Len(s) |-> s[CHOOSE j \in 1..Len(s) : SortedIndex(s, j) = k]]

\* Mutant of First15: the slice is missing
First15All(s) == s

\* orderedPlacements.slice(0, 15)
First15(s) == SubSeq(s, 1, IF Len(s) < NSlots THEN Len(s) ELSE NSlots)

\* Mutant of PadWithE: the markers are put in front
PadInFront(s) == [i \in 1..(NSlots - Len(s)) |-> E] \o s

\* while (finalPlacements.length < 15) finalPlacements.push('E')
PadWithE(s) == s \o [i \in 1..(NSlots - Len(s)) |-> E]

parseOCRTextFallback(text) ==
    LET sorted == SortPositions(ScanLines(SplitLines(text), 1))
        orderedPlacements == [k \in 1..Len(sorted) |-> sorted[k].placement]
    IN  PadWithE(First15(orderedPlacements))

-----------------------------------------------------------------------------
(* parseOCRWithPositions: word boxes mapped onto the 5 x 3 grid *)

\* A word of the recognition result: its text and, when hasBox, its bbox
Word(t, b, x0, y0, x1, y1) ==
    [text |-> t, hasBox |-> b, x0 |-> x0, y0 |-> y0, x1 |-> x1, y1 |-> y1]

RECURSIVE Flatten(_)
Flatten(ss) ==
    IF Len(ss) = 0 THEN <<>> ELSE ss[1] \o Flatten(Tail(ss))

\* ocrData.height || 2412 and ocrData.width || 1080 (0: the field is absent)
imageHeight(data) == IF data.height = 0 THEN 2412 ELSE data.height

imageWidth(data) == IF data.width = 0 THEN 1080 ELSE data.width

\* The probing of ocrData.words, ocrData.lines, ocrData.paragraphs
WordsOf(data) ==
    IF Len(data.words) > 0 THEN data.words
    ELSE IF data.hasLines THEN Flatten(data.lines)
    ELSE IF data.hasParagraphs
    THEN Flatten([p \in 1..Len(data.paragraphs) |-> Flatten(data.paragraphs[p])])
    ELSE <<>>

\* Mutant of InRankingArea: the lower bound of the band is not checked
InRankingAreaTopOnly(w, H) == 100 * (w.y0 + w.y1) >= 90 * H

\* centerY >= rankingAreaTop && centerY <= rankingAreaBottom, with
\* centerY = (y0 + y1) / 2, rankingAreaTop = 0.45 H, rankingAreaBottom = 0.75 H
InRankingArea(w, H) ==
    100 * (w.y0 + w.y1) >= 90 * H /\ 100 * (w.y0 + w.y1) <= 150 * H

\* text.match(ordinal pattern) is not null, and where its leftmost match starts
HasOrdinal(s) == \E i \in 1..Len(s) : OrdinalAt(s, i)

FirstOrdinal(s) ==
    CHOOSE i \in 1..Len(s) : OrdinalAt(s, i) /\ \A k \in 1..(i - 1) : ~OrdinalAt(s, k)

\* text.match(alternative pattern) is not null, and where its leftmost match starts
HasMisread(s) == \E i \in 1..Len(s) : MisreadAt(s, i)

FirstMisread(s) ==
    CHOOSE i \in 1..Len(s) : MisreadAt(s, i) /\ \A k \in 1..(i - 1) : ~MisreadAt(s, k)

\* rankNum after the ordinal pattern
RankOrdinal(text) ==
    IF HasOrdinal(text)
    THEN parseInt(Captured(text, FirstOrdinal(text))) ELSE null

\* rankNum after the alternative pattern, tried when rankNum is falsy
RankMisread(text, rankNum) ==
    IF ~Truthy(rankNum) /\ HasMisread(text)
    THEN parseInt(Captured(text, FirstMisread(text))) ELSE rankNum

\* rankNum after the standalone pattern /^\d{1,2}$/, tried when rankNum is falsy
RankStandalone(text, rankNum) ==
    IF ~Truthy(rankNum) /\ Len(text) \in 1..2 /\ AllDigits(text)
       /\ InRange(parseInt(text))
    THEN parseInt(text) ELSE rankNum

\* rankNum of one word after the three patterns
WordRank(text) == RankStandalone(text, RankMisread(text, RankOrdinal(text)))

\* matchType of one word after the three patterns
WordType(text) ==
    LET r1 == RankOrdinal(text)
        r2 == RankMisread(text, r1)
        r3 == RankStandalone(text, r2)
    IN  IF ~Truthy(r2) /\ r3 # r2 THEN "standalone"
        ELSE IF ~Truthy(r1) /\ HasMisread(text) THEN "alternative"
        ELSE IF HasOrdinal(text) THEN "ordinal"
        ELSE "none"

\* Mutant of ValidRank: the range check is missing
ValidRankAny(rankNum) == Truthy(rankNum)

\* if (rankNum && rankNum >= 1 && rankNum <= 18)
ValidRank(rankNum) == Truthy(rankNum) /\ rankNum >= 1 /\ rankNum <= 18

\* A word adds an entry to rankings
Accepted(w, H) ==
    w.hasBox /\ InRankingArea(w, H) /\ ValidRank(WordRank(Trim(w.text)))

\* Math.floor((ranking.x / imageWidth) * cols), ranking.x = (x0 + x1) / 2
ColOf(w, W) == (cols * (w.x0 + w.x1)) \div (2 * W)

\* Math.floor(normalizedY * rows), normalizedY = (y - 0.45 H) / (0.75 H - 0.45 H)
RowOf(w, H) == (rows * (50 * (w.y0 + w.y1) - 45 * H)) \div (30 * H)

\* Mutant of ClampIndex: the upper clamp is missing
ClampIndexLow(i) == IF i < 0 THEN 0 ELSE i

\* Math.max(0, Math.min(14, row * cols + col))
ClampIndex(i) == IF i < 0 THEN 0 ELSE IF i > 14 THEN 14 ELSE i

GridIndex(w, W, H) == ClampIndex(RowOf(w, H) * cols + ColOf(w, W))

\* placements[gridIndex] = ranking.rank
WriteRank(acc, gridIndex, rank) == [acc EXCEPT ![gridIndex + 1] = rank]

RECURSIVE MapRankings(_, _, _, _)
\* The two loops over words and over rankings: both keep the words' order
MapRankings(words, W, H, acc) ==
    IF Len(words) = 0 THEN acc
    ELSE MapRankings(Tail(words), W, H,
             IF Accepted(words[1], H)
             THEN WriteRank(acc, GridIndex(words[1], W, H),
                            WordRank(Trim(words[1].text)))
             ELSE acc)

parseOCRWithPositions(data) ==
    IF Len(WordsOf(data)) = 0
    THEN parseOCRTextFallback(data.text)
    ELSE MapRankings(WordsOf(data), imageWidth(data), imageHeight(data),
                     EmptyPlacements)

-----------------------------------------------------------------------------
(* extractNumbersFromRegionText and parseRegionResults: the extractor and   *)
(* resolver of processImageRegions, which processImageWithOCR does not call *)

\* \w, as far as the texts here use it
WordChar(c) ==
    c \in Digit \cup {"s", "t", "n", "d", "r", "h", "x", "S", "T", "N", "D", "R", "H", "_"}

\* \b holds before position k of s
BoundaryAt(s, k) ==
    (k >= 2 /\ k <= Len(s) /\ WordChar(s[k - 1]) # WordChar(s[k]))
    \/ (k = 1 /\ Len(s) >= 1 /\ WordChar(s[1]))
    \/ (k = Len(s) + 1 /\ Len(s) >= 1 /\ WordChar(s[Len(s)]))

\* /\b(\d{1,2})\b/ matches with its digits starting at i
PlainAt(s, i) ==
    /\ RunStart(s, i) /\ RunEnd(s, i) - i <= 2
    /\ BoundaryAt(s, i) /\ BoundaryAt(s, RunEnd(s, i))

\* text.substring(Math.max(0, match.index - 2), match.index + match[0].length + 2)
\* holds a '+', for the match whose digits start at i
NearPlus(s, i) ==
    \E k \in (i - 2)..(RunEnd(s, i) + 1) : k \in 1..Len(s) /\ s[k] = "+"

\* The ordinal matches in range, as numbers
OrdinalNumbers(text) ==
    LET at == SelectSeq(Indices(Len(text)),
                        LAMBDA i : OrdinalAt(text, i)
                                   /\ InRange(parseInt(Captured(text, i))))
    IN  [k \in 1..Len(at) |->
            [value |-> parseInt(Captured(text, at[k])), type |-> "ordinal",
             confidence |-> 10]]

\* The plain matches in range and away from a '+', as numbers (confidence in
\* tenths)
PlainNumbers(text) ==
    LET at == SelectSeq(Indices(Len(text)),
                        LAMBDA i : PlainAt(text, i)
                                   /\ InRange(parseInt(Captured(text, i)))
                                   /\ ~NearPlus(text, i))
    IN  [k \in 1..Len(at) |->
            [value |-> parseInt(Captured(text, at[k])), type |-> "plain",
             confidence |-> 6]]

extractNumbersFromRegionText(text) ==
    IF Len(OrdinalNumbers(text)) > 0 THEN OrdinalNumbers(text)
    ELSE PlainNumbers(text)

\* The sort comparator of parseRegionResults is negative for (a, b)
Better(a, b) ==
    IF a.type = "ordinal" /\ b.type # "ordinal" THEN TRUE
    ELSE IF b.type = "ordinal" /\ a.type # "ordinal" THEN FALSE
    ELSE b.confidence - a.confidence < 0

\* sortedNumbers[0] of a stable sort: the first number no other one is better
\* than
BestNumber(numbers) ==
    numbers[CHOOSE k \in 1..Len(numbers) :
                /\ \A j \in 1..Len(numbers) : ~Better(numbers[j], numbers[k])
                /\ \A j \in 1..(k - 1) :
                       \E i \in 1..Len(numbers) : Better(numbers[i], numbers[j])]

\* What parseRegionResults leaves in the slot of a region with these numbers
RegionPlacement(numbers) ==
    IF Len(numbers) > 0 THEN BestNumber(numbers).value ELSE E

-----------------------------------------------------------------------------
(* processFocusedRankRegions: geometry of the 15 crops *)

\* Math.floor(height * 0.46) and Math.floor(height * 0.86)
gridTop(h) == (46 * h) \div 100

gridBottom(h) == (86 * h) \div 100

\* Math.floor(width / cols)
regionW(w) == w \div cols

\* Math.floor(gridHeight / rows)
regionH(h) == (gridBottom(h) - gridTop(h)) \div rows

\* sw - 2 * Math.floor(sw * 0.15)
innerW(w) == regionW(w) - 2 * ((15 * regionW(w)) \div 100)

\* Mutant of TooSmall: the cell height is not checked
TooSmallWidthOnly(w, h) == innerW(w) < 20

\* if (innerW < 20 || sh < 20) continue: the same for all 15 regions of an image
TooSmall(w, h) == innerW(w) < 20 \/ regionH(h) < 20

\* bandCandidates, as percentages of the cell height
bandCandidates ==
    <<[y |-> 62, h |-> 32], [y |-> 55, h |-> 35],
      [y |-> 50, h |-> 35], [y |-> 47, h |-> 30]>>

\* scales = [2, 3]
scales == <<2, 3>>

\* Mutant of psms: a fourth recognition mode
psmsFour == <<8, 7, 10, 6>>

\* psms = [8, 7, 10]
psms == <<8, 7, 10>>

Min(a, b) == IF a < b THEN a ELSE b

Max(a, b) == IF a > b THEN a ELSE b

bandY(sh, b) == Max(0, Min(sh - 20, (sh * bandCandidates[b].y) \div 100))

bandH(sh, b) == Max(20, Min(sh - bandY(sh, b), (sh * bandCandidates[b].h) \div 100))

\* if (bandH < 20 || innerW < 20) continue
BandSkipped(w, h, b) == bandH(regionH(h), b) < 20 \/ innerW(w) < 20

\* Recognition calls one region can take: bands x scales x psms
PerRegion == Len(bandCandidates) * Len(scales) * Len(psms)

PerBand == Len(scales) * Len(psms)

\* The band (1..4), scale (1..2) and psm (1..3) of attempt n in 0..PerRegion-1
BandOf(n) == (n \div PerBand) + 1

ScaleOf(n) == ((n % PerBand) \div Len(psms)) + 1

PsmOf(n) == (n % Len(psms)) + 1

-----------------------------------------------------------------------------
(* The recognition engine and the uploaded files *)

\* The uploads of one session
Uploads == {"A", "B"}

DigitChar(d) ==
    CASE d = 0 -> "0" [] d = 1 -> "1" [] d = 2 -> "2" [] d = 3 -> "3"
      [] d = 4 -> "4" [] d = 5 -> "5" [] d = 6 -> "6" [] d = 7 -> "7"
      [] d = 8 -> "8" [] d = 9 -> "9"

\* The clean ordinal token of n in 1..18 as the result screen prints it
OrdinalText(n) ==
    (IF n >= 10 THEN <<DigitChar(n \div 10)>> ELSE <<>>)
    \o <<DigitChar(n % 10)>>
    \o (IF n = 1 THEN <<"s", "t">> ELSE IF n = 2 THEN <<"n", "d">>
        ELSE IF n = 3 THEN <<"r", "d">> ELSE <<"t", "h">>)

\* What one Tesseract.recognize call on a region crop gives: it throws, or it
\* resolves with result.data.text.  The engine is a function of the file and
\* of the call: the regions in f.good yield a text from attempt f.okAt on
\* (an ordinal of their own, or f.tok from region f.mix on when ~f.own),
\* every other call ends as f.pre says.
RecognizeRegion(f, index, n) ==
    IF index \in f.good /\ n >= f.okAt
    THEN [throws |-> FALSE,
          text |-> IF f.own \/ index < f.mix
                   THEN OrdinalText(((index + n) % 18) + 1) ELSE f.tok]
    ELSE IF f.pre = "throw" THEN [throws |-> TRUE, text |-> <<>>]
    ELSE [throws |-> FALSE, text |-> f.junk]

\* workCanvas.toBlob hands over null for attempt n of region index
BlobFails(f, index, n) == f.blobFail = index * PerRegion + n

\* What the whole-image Tesseract.recognize call gives
RecognizeWhole(f) == f.whole

Data(text, words) ==
    [text |-> text, width |-> 0, height |-> 0, words |-> words,
     hasLines |-> FALSE, lines |-> <<>>,
     hasParagraphs |-> FALSE, paragraphs |-> <<>>]

Resolves(data) == [throws |-> FALSE, data |-> data]

Throws == [throws |-> TRUE, data |-> Data(<<>>, <<>>)]

-----------------------------------------------------------------------------
(* processImageWithOCR, handleImageUpload and the change handler.  A run is *)
(* suspended only where it awaits an event (image load, toBlob callback,    *)
(* recognition result); what follows an await up to the next one, promise   *)
(* continuations of the callers included, is one step.                      *)

\* regionPlacements.filter(v => typeof v === 'number' && v >= 1 && v <= 18).length
nonDefault(p) == Cardinality({i \in 1..Len(p) : IsRank(p[i])})

\* Mutant of Accept: the threshold is off by one
AcceptMoreThan5(p) == nonDefault(p) > 5

\* if (nonDefault >= 5)
Accept(p) == nonDefault(p) >= 5

\* The option showOCRReview selects for one value: 'E', j in 1..18, or the
\* first option when the value is neither
SelectValue(v) == IF v = E \/ v \in 1..18 THEN v ELSE E

showOCRReview(u, p) ==
    [visible |-> TRUE, of |-> u,
     values |-> [i \in 1..NSlots |-> IF i <= Len(p) THEN SelectValue(p[i]) ELSE E]]

ErrorToast(u) == [type |-> "error", of |-> u]

SuccessToast(u) == [type |-> "success", of |-> u]

\* Mutant of UploadCaught: the catch hands back a placeholder array
UploadCaughtPlaceholder(u) ==
    /\ toasts' = Append(toasts, ErrorToast(u))
    /\ upl' = [upl EXCEPT ![u] = [kind |-> "array", value |-> EmptyPlacements]]
    /\ review' = showOCRReview(u, EmptyPlacements)
    /\ manual' = FALSE

\* The catch of handleImageUpload: one error toast, resolve to null; the
\* change handler then skips showOCRReview
UploadCaught(u) ==
    /\ toasts' = Append(toasts, ErrorToast(u))
    /\ upl' = [upl EXCEPT ![u] = [kind |-> "null", value |-> <<>>]]
    /\ UNCHANGED <<review, manual>>

\* The catch of processImageWithOCR: hideLoading and rethrow
Thrown(u) ==
    /\ loading' = FALSE
    /\ ret' = [ret EXCEPT ![u] = [kind |-> "threw", value |-> <<>>]]

\* processImageWithOCR throws: its catch, then the catch of handleImageUpload
Fail(u) ==
    /\ Thrown(u)
    /\ UploadCaught(u)
    /\ pc' = [pc EXCEPT ![u] = "done"]

\* processImageWithOCR returns p: hideLoading, the success toast of
\* handleImageUpload, showOCRReview in the change handler
Succeed(u, p) ==
    /\ loading' = FALSE
    /\ ret' = [ret EXCEPT ![u] = [kind |-> "returned", value |-> p]]
    /\ toasts' = Append(toasts, SuccessToast(u))
    /\ upl' = [upl EXCEPT ![u] = [kind |-> "array", value |-> p]]
    /\ review' = showOCRReview(u, p)
    /\ manual' = FALSE
    /\ pc' = [pc EXCEPT ![u] = "done"]

\* The acceptance check on the array processFocusedRankRegions returned, and
\* the whole-image call when it is not accepted
AcceptanceCheck(u, p) ==
    /\ placements' = [placements EXCEPT ![u] = p]
    /\ pos' = [pos EXCEPT ![u] = [index |-> NSlots, n |-> 0]]
    /\ IF Accept(p)
       THEN Succeed(u, p) /\ UNCHANGED calls
       ELSE /\ calls' = [calls EXCEPT ![u].whole = @ + 1]
            /\ pc' = [pc EXCEPT ![u] = "whole"]
            /\ UNCHANGED <<ret, upl, loading, toasts, review, manual>>

\* First attempt >= n of a region whose band is not skipped (PerRegion: none)
FirstAttempt(f, n) ==
    IF \E m \in n..(PerRegion - 1) : ~BandSkipped(f.w, f.h, BandOf(m))
    THEN CHOOSE m \in n..(PerRegion - 1) :
             /\ ~BandSkipped(f.w, f.h, BandOf(m))
             /\ \A k \in n..(m - 1) : BandSkipped(f.w, f.h, BandOf(k))
    ELSE PerRegion

\* The loops of processFocusedRankRegions from region index on, p being the
\* placements array: up to the next toBlob, or to the return
EnterRegion(u, index, p) ==
    IF index < NSlots /\ ~TooSmall(file[u].w, file[u].h)
       /\ FirstAttempt(file[u], 0) < PerRegion
    THEN /\ pos' = [pos EXCEPT ![u] = [index |-> index, n |-> FirstAttempt(file[u], 0)]]
         /\ placements' = [placements EXCEPT ![u] = p]
         /\ pc' = [pc EXCEPT ![u] = "blob"]
         /\ UNCHANGED <<ret, upl, calls, loading, toasts, review, manual>>
    ELSE AcceptanceCheck(u, p)

\* No rank from this call: the next psm, else the next scale or band, else the
\* next region
NextAttempt(u) ==
    LET n == pos[u].n
        m == FirstAttempt(file[u], n + 1)
    IN  IF PsmOf(n) < Len(psms)
        THEN /\ pos' = [pos EXCEPT ![u].n = n + 1]
             /\ calls' = [calls EXCEPT ![u].region = @ + 1, ![u].at[pos[u].index] = @ + 1]
             /\ UNCHANGED <<pc, placements, ret, upl, loading, toasts, review, manual>>
        ELSE IF m < PerRegion
        THEN /\ pos' = [pos EXCEPT ![u].n = m]
             /\ pc' = [pc EXCEPT ![u] = "blob"]
             /\ UNCHANGED <<placements, calls, ret, upl, loading, toasts, review, manual>>
        ELSE EnterRegion(u, pos[u].index + 1, placements[u])

\* Mutant of OnRecognizeThrow: the call is not wrapped in try/catch
OnRecognizeThrowAborts(u) == Fail(u) /\ UNCHANGED <<pos, placements, calls>>

\* catch (err) { /* try next psm/scale/band */ }
OnRecognizeThrow(u) == NextAttempt(u)

\* Mutant of OnDetected: a detected rank does not end the region's loops
OnDetectedGoesOn(u, detected) == NextAttempt(u)

\* placements[index] = detected; found = true
OnDetected(u, detected) ==
    EnterRegion(u, pos[u].index + 1,
                [placements[u] EXCEPT ![pos[u].index + 1] = detected])

\* The change event of #screenshot-upload with file f
Upload(u, f) ==
    /\ pc[u] = "idle"
    /\ file' = [file EXCEPT ![u] = f]
    /\ order' = Append(order, [u |-> u, during |-> {v \in Uploads : pc[v] \notin {"idle", "done"}}])
    /\ UNCHANGED <<tesseract, pos, placements, calls, parseVars, storeVars>>
    /\ IF ~f.isImage
       THEN /\ toasts' = Append(toasts, ErrorToast(u))
            /\ upl' = [upl EXCEPT ![u] = [kind |-> "null", value |-> <<>>]]
            /\ pc' = [pc EXCEPT ![u] = "done"]
            /\ UNCHANGED <<ret, loading, review, manual>>
       ELSE IF ~tesseract
       THEN Fail(u)
       ELSE /\ loading' = TRUE
            /\ pc' = [pc EXCEPT ![u] = "decode"]
            /\ UNCHANGED <<ret, upl, toasts, review, manual>>

\* Mutant of ImageLoaded: the per-region pass starts from the array a finished
\* run returned instead of a fresh one
ImageLoadedReusing(u) ==
    /\ pc[u] = "decode"
    /\ UNCHANGED <<tesseract, file, order, parseVars, storeVars>>
    /\ IF file[u].decodes
       THEN EnterRegion(u, 0,
                IF \E v \in Uploads : ret[v].kind = "returned"
                THEN ret[CHOOSE v \in Uploads : ret[v].kind = "returned"].value
                ELSE EmptyPlacements)
       ELSE Fail(u) /\ UNCHANGED <<pos, placements, calls>>

\* img.onload or img.onerror of createImageFromFile
ImageLoaded(u) ==
    /\ pc[u] = "decode"
    /\ UNCHANGED <<tesseract, file, order, parseVars, storeVars>>
    /\ IF file[u].decodes
       THEN EnterRegion(u, 0, EmptyPlacements)
       ELSE Fail(u) /\ UNCHANGED <<pos, placements, calls>>

\* The toBlob callback: the first recognition call on the new blob, or the
\* rejection that leaves processFocusedRankRegions
BlobReady(u) ==
    /\ pc[u] = "blob"
    /\ UNCHANGED <<tesseract, file, order, pos, placements, parseVars, storeVars>>
    /\ IF BlobFails(file[u], pos[u].index, pos[u].n)
       THEN Fail(u) /\ UNCHANGED calls
       ELSE /\ calls' = [calls EXCEPT ![u].region = @ + 1, ![u].at[pos[u].index] = @ + 1]
            /\ pc' = [pc EXCEPT ![u] = "recognize"]
            /\ UNCHANGED <<ret, upl, loading, toasts, review, manual>>

\* A region's Tesseract.recognize call settles
RegionRecognized(u) ==
    /\ pc[u] = "recognize"
    /\ UNCHANGED <<tesseract, file, order, parseVars, storeVars>>
    /\ LET out == RecognizeRegion(file[u], pos[u].index, pos[u].n)
           detected == detectRankingFromText(Trim(out.text))
       IN  IF out.throws THEN OnRecognizeThrow(u)
           ELSE IF Truthy(detected) THEN OnDetected(u, detected)
           ELSE NextAttempt(u)

\* Mutant of WholeRecognized: the slots the per-region pass resolved are kept
WholeRecognizedMerging(u) ==
    /\ pc[u] = "whole"
    /\ UNCHANGED <<tesseract, file, order, pos, placements, calls, parseVars, storeVars>>
    /\ LET out == RecognizeWhole(file[u])
           parsed == parseOCRWithPositions(out.data)
       IN  IF out.throws THEN Fail(u)
           ELSE Succeed(u, [i \in 1..NSlots |->
                               IF placements[u][i] # E THEN placements[u][i]
                               ELSE parsed[i]])

\* The whole-image Tesseract.recognize call settles
WholeRecognized(u) ==
    /\ pc[u] = "whole"
    /\ UNCHANGED <<tesseract, file, order, pos, placements, calls, parseVars, storeVars>>
    /\ LET out == RecognizeWhole(file[u])
       IN  IF out.throws THEN Fail(u)
           ELSE Succeed(u, parseOCRWithPositions(out.data))

-----------------------------------------------------------------------------
(* The files and recognition results the model is checked on *)

RECURSIVE Join(_, _)
\* The texts of a sequence, separated by sep
Join(ts, sep) ==
    IF Len(ts) = 0 THEN <<>>
    ELSE IF Len(ts) = 1 THEN ts[1]
    ELSE ts[1] \o sep \o Join(Tail(ts), sep)

Tokens(P) == [i \in 1..Len(P) |-> OrdinalText(P[i])]

\* The values of P as clean ordinal tokens on one line
RenderLine(P) == Join(Tokens(P), <<" ">>)

\* The values of P as clean ordinal tokens, perLine to a line
RenderGrid(P, perLine) ==
    Join([l \in 1..(Len(P) \div perLine) |->
             RenderLine(SubSeq(P, (l - 1) * perLine + 1, l * perLine))],
         <<NL>>)

\* A word whose box is centred in cell (r, c) of the ranking area of the
\* default 1080 x 2412 image
WordIn(t, r, c) ==
    Word(t, TRUE, 216 * c + 58, 1186 + 241 * r, 216 * c + 158, 1226 + 241 * r)

Ramp == [i \in 1..NSlots |-> i]

TxLine == RenderLine(Ramp)

TxGrid == RenderGrid([i \in 1..NSlots |-> 19 - i], cols)

\* 18 ordinals: more candidates than slots
TxMany == RenderGrid([i \in 1..18 |-> i], 6)

\* "x 3rd", "", " 12th 19th 0th 7 nd", "123rd 1ST": four in-range ordinals
TxScatter ==
    <<"x", " ", "3", "r", "d", NL, NL,
      " ", "1", "2", "t", "h", " ", "1", "9", "t", "h", " ", "0", "t", "h",
      " ", "7", " ", "n", "d", NL,
      "1", "2", "3", "r", "d", " ", "1", "S", "T">>

\* "th 19th 5 +7 0th": nothing the text parser accepts
TxNone ==
    <<"t", "h", " ", "1", "9", "t", "h", " ", "5", " ", "+", "7", " ",
      "0", "t", "h">>

Texts == {<<>>, TxLine, TxGrid, TxMany, TxScatter, TxNone}

\* One ordinal word per cell, slot i holding rank 16 - i
WsGrid == [i \in 1..NSlots |->
              WordIn(OrdinalText(16 - i), (i - 1) \div cols, (i - 1) % cols)]

\* An ordinal and a bare number in cell (0, 0), in both orders
WsOrdinalBare == <<WordIn(OrdinalText(1), 0, 0), WordIn(<<"7">>, 0, 0)>>

WsBareOrdinal == <<WordIn(<<"7">>, 0, 0), WordIn(OrdinalText(1), 0, 0)>>

\* Digit strings outside 1..18, a word above the area, a word without a box
WsRejected ==
    <<WordIn(<<"1", "9", "t", "h">>, 0, 1), WordIn(<<"0">>, 0, 2),
      WordIn(<<"1", "2", "3", "]">>, 1, 0), WordIn(<<"9", "9">>, 1, 1),
      Word(OrdinalText(3), TRUE, 100, 200, 200, 240),
      Word(OrdinalText(4), FALSE, 0, 0, 0, 0)>>

\* "0th5]" and "3]" are taken by the alternative pattern
WsMisread ==
    <<WordIn(<<"0", "t", "h", "5", "]">>, 2, 4), WordIn(<<"3", "]">>, 1, 2),
      WordIn(<<" ", "1", "2", " ", "T", "h", " ">>, 0, 3)>>

\* A word whose centre is on the lower bound of the ranking area
WsBottom == <<Word(OrdinalText(12), TRUE, 500, 1809, 600, 1809)>>

WordLists ==
    {WsGrid, WsOrdinalBare, WsBareOrdinal, WsRejected, WsMisread, WsBottom,
     WsGrid \o WsOrdinalBare}

WholeOutcomes ==
    {Throws}
    \cup {Resolves(Data(t, <<>>)) : t \in Texts}
    \cup {Resolves(Data(TxLine, ws)) : ws \in WordLists}
    \cup {Resolves([Data(TxLine, <<>>) EXCEPT !.hasLines = TRUE,
                                              !.lines = <<WsMisread, <<>>, WsBottom>>]),
          Resolves([Data(TxLine, <<>>) EXCEPT !.hasParagraphs = TRUE,
                                              !.paragraphs = <<<<WsGrid>>, <<>>>>]),
          Resolves([Data(TxLine, <<>>) EXCEPT !.hasLines = TRUE,
                                              !.hasParagraphs = TRUE,
                                              !.paragraphs = <<<<WsGrid>>>>]),
          Resolves([Data(TxGrid, WsBottom) EXCEPT !.width = 1200, !.height = 2000])}

\* What a region crop can read as: ordinals, misreads, bare numbers, digit
\* strings outside 1..18, and texts that hold no ranking
RegionTexts ==
    {<<"1", "s", "t">>, <<"1", "8", "t", "h">>, <<"1", "9", "t", "h">>,
     <<"0">>, <<"0", "0", "]">>, <<"9", "9">>, <<"1", "2", "3">>,
     <<"3", "]">>, <<"4", ")", "|">>, <<"7">>,
     <<" ", "1", " ", "2", " ", "T", "H", NL>>, <<"[", "3", "]">>,
     <<"t", "h">>, <<"1", "2", "3", "t", "h">>}

GoodSets ==
    {{}, 0..3, 0..4, 0..14, {0, 3, 6, 9, 12}, {2, 5, 7, 11}, {14}}

OkAts == {1, 2, 3, 6, 23}

BaseFile ==
    [isImage |-> TRUE, decodes |-> TRUE, w |-> 1080, h |-> 2412,
     good |-> {}, own |-> TRUE, mix |-> 0, tok |-> <<>>, okAt |-> 0,
     pre |-> "nocand", junk |-> <<>>, blobFail |-> -1, whole |-> Throws]

\* Regions that read at the first attempt: which regions, and as what
FilesRegion ==
    {[BaseFile EXCEPT !.good = g, !.whole = Resolves(Data(TxScatter, <<>>))] :
        g \in GoodSets}
    \cup {[BaseFile EXCEPT !.good = g, !.own = FALSE, !.tok = t,
                           !.whole = Resolves(Data(TxLine, WsMisread))] :
            g \in {0..4, 0..14, {14}}, t \in RegionTexts}
    \cup {[BaseFile EXCEPT !.good = 0..6, !.own = FALSE, !.mix = 5, !.tok = t,
                           !.whole = Resolves(Data(TxLine, WsMisread))] :
            t \in RegionTexts}

\* Regions that read only at a later attempt, the earlier ones throwing or
\* reading junk
FilesAttempt ==
    {[BaseFile EXCEPT !.good = g, !.okAt = k, !.pre = pr, !.junk = <<"t", "h">>,
                      !.whole = Resolves(Data(TxGrid, <<>>))] :
        g \in {0..4, {2, 5, 7, 11}}, k \in OkAts, pr \in {"throw", "nocand"}}

\* Images too small for the per-region pass: the whole-image call decides
FilesWhole ==
    {[BaseFile EXCEPT !.w = 120, !.h = 240, !.whole = wo] : wo \in WholeOutcomes}
    \cup {[BaseFile EXCEPT !.w = 1080, !.h = 120, !.whole = wo] :
            wo \in {Throws, Resolves(Data(TxMany, <<>>))}}

\* No region reads, or too few: the ladder reaches the whole-image call
FilesLadder ==
    {[BaseFile EXCEPT !.good = g, !.pre = pr, !.whole = wo] :
        g \in {{}, 0..3}, pr \in {"throw", "nocand"},
        wo \in {Throws, Resolves(Data(TxScatter, <<>>)),
                Resolves(Data(<<>>, <<>>)), Resolves(Data(TxLine, WsGrid))}}

\* Not an image, an image that does not decode, a crop toBlob cannot encode
FilesBroken ==
    {[BaseFile EXCEPT !.isImage = FALSE], [BaseFile EXCEPT !.decodes = FALSE]}
    \cup {[BaseFile EXCEPT !.good = 0..14, !.blobFail = b] :
            b \in {0, 7 * PerRegion, 14 * PerRegion}}
    \cup {[BaseFile EXCEPT !.pre = "throw", !.blobFail = b] :
            b \in {3, 2 * PerRegion + 21}}

Files == FilesRegion \cup FilesAttempt \cup FilesWhole \cup FilesLadder \cup FilesBroken

-----------------------------------------------------------------------------
(* One upload *)

NoRun == [kind |-> "pending", value |-> <<>>]

InitPipeline ==
    /\ pc = [u \in Uploads |-> "idle"]
    /\ file = [u \in Uploads |-> BaseFile]
    /\ pos = [u \in Uploads |-> [index |-> 0, n |-> 0]]
    /\ placements = [u \in Uploads |-> <<>>]
    /\ ret = [u \in Uploads |-> NoRun]
    /\ upl = [u \in Uploads |-> NoRun]
    /\ calls = [u \in Uploads |->
                  [region |-> 0, whole |-> 0, at |-> [i \in 0..(NSlots - 1) |-> 0]]]
    /\ loading = FALSE
    /\ toasts = <<>>
    /\ review = [visible |-> FALSE, of |-> "none", values |-> <<>>]
    /\ manual = FALSE
    /\ order = <<>>

NoInput ==
    [kind |-> "none", P |-> <<>>, perLine |-> 0, text |-> <<>>,
     data |-> Data(<<>>, <<>>)]

NotParsed == [done |-> FALSE, value |-> <<>>]

InitParse ==
    /\ pin = NoInput
    /\ pout = NotParsed

\* localStorage holds no item yet
InitStorage ==
    /\ stored = [present |-> FALSE, races |-> <<>>]
    /\ sres = "none"

Init ==
    /\ tesseract \in BOOLEAN
    /\ InitPipeline
    /\ InitParse
    /\ InitStorage

Next ==
    \/ \E f \in Files : Upload("A", f)
    \/ ImageLoaded("A")
    \/ BlobReady("A")
    \/ RegionRecognized("A")
    \/ WholeRecognized("A")

Spec == Init /\ [][Next]_vars

\* The events a run waits for are delivered: the image loads or fails to, the
\* toBlob callback runs, every recognition call returns or throws.  For the two
\* recognition actions weak fairness is written out, with ENABLED replaced by
\* the guard it equals: a recognition step is possible exactly at its pc, and it
\* always changes calls or pc.
Delivered ==
    /\ WF_vars(ImageLoaded("A"))
    /\ WF_vars(BlobReady("A"))
    /\ ([]<>(pc["A"] # "recognize") \/ []<><<RegionRecognized("A")>>_vars)
    /\ ([]<>(pc["A"] # "whole") \/ []<><<WholeRecognized("A")>>_vars)

SpecLive == Spec /\ Delivered

-----------------------------------------------------------------------------
(* Two uploads, the second while the first may still be in flight *)

\* Files whose runs are short: the whole-image call decides, every region
\* reads at once, or the image does not decode
UploadFiles ==
    {[BaseFile EXCEPT !.w = 120, !.h = 240, !.whole = wo] :
        wo \in {Throws, Resolves(Data(TxLine, <<>>)), Resolves(Data(TxLine, WsGrid))}}
    \cup {[BaseFile EXCEPT !.good = 0..14], [BaseFile EXCEPT !.decodes = FALSE]}

NextUpload ==
    \E u \in Uploads :
        \/ \E f \in UploadFiles : Upload(u, f)
        \/ ImageLoaded(u)
        \/ BlobReady(u)
        \/ RegionRecognized(u)
        \/ WholeRecognized(u)

SpecUpload == Init /\ [][NextUpload]_vars

-----------------------------------------------------------------------------
(* The same file uploaded twice *)

\* The file of the first upload is selected again: after its run has
\* finished, or during it when its run is a short one
UploadAgain ==
    /\ pc["A"] = "done" \/ (pc["A"] # "idle" /\ file["A"] \in UploadFiles)
    /\ Upload("B", file["A"])

NextTwice ==
    \/ \E f \in Files \cup UploadFiles : Upload("A", f)
    \/ UploadAgain
    \/ \E u \in Uploads :
           \/ ImageLoaded(u)
           \/ BlobReady(u)
           \/ RegionRecognized(u)
           \/ WholeRecognized(u)

SpecTwice == Init /\ [][NextTwice]_vars

-----------------------------------------------------------------------------
(* The parsers on their own: an input is drawn, the parser is applied *)

\* Largest stride of the arithmetic arrays the round trip is checked on
MaxStride == 5

\* Largest number of words in a recognition result handed to the parser
MaxWords == 2

\* 15 placements in 1..18: constant arrays (stride 0), ramps, wrapped strides
Arrays ==
    {[i \in 1..NSlots |-> ((a * (i - 1) + b) % 18) + 1] : a \in 0..MaxStride, b \in 0..17}

RenderInputs ==
    {[kind |-> "render", P |-> P, perLine |-> n, text |-> RenderGrid(P, n),
      data |-> Data(<<>>, <<>>)] : P \in Arrays, n \in {cols, NSlots}}

WordTexts ==
    {OrdinalText(1), OrdinalText(12), <<"7">>, <<"3", "]">>,
     <<"1", "9", "t", "h">>, <<"0", "t", "h", "5", "]">>}

\* Boxes centred in three cells, one above the ranking area, one on its lower
\* bound, and no box at all
WordBoxes ==
    {WordIn(<<>>, 0, 0), WordIn(<<>>, 1, 2), WordIn(<<>>, 2, 4),
     Word(<<>>, TRUE, 100, 200, 200, 240), Word(<<>>, TRUE, 500, 1809, 600, 1809),
     Word(<<>>, FALSE, 0, 0, 0, 0)}

Words == {[b EXCEPT !.text = t] : b \in WordBoxes, t \in WordTexts}

RECURSIVE WordSeqs(_)
\* The sequences of 1..n words
WordSeqs(n) ==
    IF n = 0 THEN {}
    ELSE {<<w>> : w \in Words}
         \cup WordSeqs(n - 1)
         \cup {Append(ws, w) : ws \in WordSeqs(n - 1), w \in Words}

WordInputs ==
    {[kind |-> "words", P |-> <<>>, perLine |-> 0, text |-> TxLine,
      data |-> Data(TxLine, ws)] : ws \in WordSeqs(MaxWords)}

\* Centre abscissas: left of the image, inside each of three columns, on the
\* right edge and right of it
CentreXs == {-300, -1, 0, 100, 540, 1079, 1080, 1500}

\* Centre ordinates for the default height 2412 (band 1085.4 to 1809): above
\* the band, in each row up to its last pixel, on the lower bound, below it
CentreYs == {1085, 1086, 1326, 1327, 1567, 1568, 1808, 1809, 1810}

\* One bare-number word centred on a point, in a result without or with
\* dimensions of its own
MapInputs ==
    {[kind |-> "words", P |-> <<>>, perLine |-> 0, text |-> <<>>,
      data |-> [Data(<<>>, <<Word(<<"7">>, TRUE, x, y, x, y)>>)
                    EXCEPT !.width = d[1], !.height = d[2]]] :
        x \in CentreXs, y \in CentreYs, d \in {<<0, 0>>, <<1200, 2500>>}}

\* Digit strings of one to three digits, inside and outside 1..18
Numerals ==
    {<<"0">>, <<"1">>, <<"3">>, <<"9">>, <<"0", "0">>, <<"0", "7">>, <<"1", "0">>,
     <<"1", "8">>, <<"1", "9">>, <<"2", "0">>, <<"9", "9">>, <<"1", "0", "0">>,
     <<"1", "2", "3">>, <<"0", "1", "8">>}

\* What can follow the digits: nothing, an ordinal suffix in either case, misread
\* punctuation, and tails no pattern takes
Tails ==
    {<<>>, <<"s", "t">>, <<"n", "d">>, <<"r", "d">>, <<"t", "h">>, <<"T", "H">>,
     <<" ", "t", "h">>, <<"]">>, <<")">>, <<"|">>, <<"!">>, <<")", "|">>,
     <<"[">>, <<"(">>, <<"]", "x">>, <<"t", "h", "]">>, <<"t">>, <<"+">>}

Heads == {<<>>, <<" ">>, <<"x">>, <<"+">>}

\* The texts one text unit is checked on
TokenTexts ==
    {h \o n \o t : h \in Heads, n \in Numerals, t \in Tails}
    \cup RegionTexts \cup {<<>>, <<" ">>, <<"[", "3", "]">>}

TextInputs ==
    {[kind |-> "text", P |-> <<>>, perLine |-> 0, text |-> t,
      data |-> Data(<<>>, <<>>)] : t \in Texts \cup TokenTexts}

DetectInputs ==
    {[kind |-> "detect", P |-> <<>>, perLine |-> 0, text |-> t,
      data |-> Data(<<>>, <<>>)] : t \in TokenTexts}

\* Region texts for extractNumbersFromRegionText: single tokens, and texts of
\* two tokens
ExtractInputs ==
    {[kind |-> "extract", P |-> <<>>, perLine |-> 0, text |-> t,
      data |-> Data(<<>>, <<>>)] :
        t \in TokenTexts
              \cup {<<"3", " ", "7">>, <<"7", " ", "3", "r", "d">>,
                    <<"2", "n", "d", " ", "5", "t", "h">>,
                    <<"1", "9", " ", "4">>, <<"5", " ", "+", "1", "2">>}}

\* One word with the text, centred in cell (1, 2)
TokenInputs ==
    {[kind |-> "words", P |-> <<>>, perLine |-> 0, text |-> t,
      data |-> Data(<<>>, <<WordIn(t, 1, 2)>>)] : t \in TokenTexts \ {<<>>}}

ParseInputs ==
    RenderInputs \cup TextInputs \cup WordInputs \cup MapInputs
    \cup DetectInputs \cup TokenInputs \cup ExtractInputs

InitParsers ==
    /\ tesseract = TRUE
    /\ InitPipeline
    /\ pin \in ParseInputs
    /\ pout = NotParsed
    /\ InitStorage

\* parseOCRTextFallback(text) is called
ParseText ==
    /\ pin.kind \in {"render", "text"}
    /\ ~pout.done
    /\ pout' = [done |-> TRUE, value |-> parseOCRTextFallback(pin.text)]
    /\ UNCHANGED <<pin, pipeVars, storeVars>>

\* parseOCRWithPositions(ocrData) is called
ParseWords ==
    /\ pin.kind = "words"
    /\ ~pout.done
    /\ pout' = [done |-> TRUE, value |-> parseOCRWithPositions(pin.data)]
    /\ UNCHANGED <<pin, pipeVars, storeVars>>

\* detectRankingFromText(text) is called
Detect ==
    /\ pin.kind = "detect"
    /\ ~pout.done
    /\ pout' = [done |-> TRUE, value |-> detectRankingFromText(pin.text)]
    /\ UNCHANGED <<pin, pipeVars, storeVars>>

\* extractNumbersFromRegionText(text) is called on a region's text, and
\* parseRegionResults on its result
Extract ==
    /\ pin.kind = "extract"
    /\ ~pout.done
    /\ pout' = [done |-> TRUE,
                value |-> [numbers |-> extractNumbersFromRegionText(pin.text),
                           placement |->
                               RegionPlacement(extractNumbersFromRegionText(pin.text))]]
    /\ UNCHANGED <<pin, pipeVars, storeVars>>

NextParse == ParseText \/ ParseWords \/ Detect \/ Extract

SpecParse == InitParsers /\ [][NextParse]_vars

-----------------------------------------------------------------------------
(* storage.js: the races kept in localStorage.  A placement handed to it is *)
(* an integer or the marker E; parseInt of an integer is that integer and   *)
(* parseInt('E') is NaN.                                                    *)

\* Most races one addRace sequence piles up
MaxRaces == 2

\* getAllRaces().races: none while the item is absent
getAllRaces == IF stored.present THEN stored.races ELSE <<>>

\* saveAllRaces: setItem stores the data, or throws (ok = FALSE) and false is
\* returned
saveAllRaces(races, ok) ==
    /\ stored' = IF ok THEN [present |-> TRUE, races |-> races] ELSE stored
    /\ sres' = IF ok THEN "true" ELSE "false"

\* isNaN(parseInt(placement))
IsNaN(v) == v = E

\* isNaN(num) || num < 1 || num > 18
BadPlacement(v) == IsNaN(v) \/ v < 1 \/ v > 18

\* An array argument, or something that is not an array
Arr(items) == [isArray |-> TRUE, items |-> items]

NotArr == [isArray |-> FALSE, items |-> <<>>]

\* addRace(date, placements)
addRace(date, p, ok) ==
    IF ~p.isArray \/ Len(p.items) # 15
    THEN sres' = "threw" /\ UNCHANGED stored
    ELSE IF \E i \in 1..Len(p.items) : BadPlacement(p.items[i])
    THEN sres' = "threw" /\ UNCHANGED stored
    ELSE saveAllRaces(Append(getAllRaces,
                             [date |-> date, placements |-> p.items,
                              stamped |-> TRUE]), ok)

\* resetAllData: removeItem, or false when it throws
resetAllData(ok) ==
    /\ stored' = IF ok THEN [present |-> FALSE, races |-> <<>>] ELSE stored
    /\ sres' = IF ok THEN "true" ELSE "false"

\* What JSON.parse makes of an imported text: nothing (it throws), or an
\* object with or without an array races
Json(races) == [parses |-> TRUE, hasRaces |-> TRUE, races |-> races]

NoJson == [parses |-> FALSE, hasRaces |-> FALSE, races |-> <<>>]

NoRacesJson == [parses |-> TRUE, hasRaces |-> FALSE, races |-> <<>>]

\* !race.date || !Array.isArray(race.placements) || race.placements.length !== 15
InvalidRace(race) ==
    race.date = "" \/ ~race.placements.isArray \/ Len(race.placements.items) # 15

\* The races of an imported object as they are stored
StoredRaces(races) ==
    [k \in 1..Len(races) |->
        [date |-> races[k].date, placements |-> races[k].placements.items,
         stamped |-> races[k].stamped]]

\* importData(jsonData)
importData(j, ok) ==
    IF ~j.parses \/ ~j.hasRaces \/ \E k \in 1..Len(j.races) : InvalidRace(j.races[k])
    THEN sres' = "threw" /\ UNCHANGED stored
    ELSE saveAllRaces(StoredRaces(j.races), ok)

\* The dates of the date inputs; "" is an empty input
Dates == {"2024-05-01", "2024-05-02", ""}

Constant15(v) == [i \in 1..NSlots |-> v]

\* Arrays handed to addRace: valid ones, one with a marker, with 0, with 19,
\* a short and a long one, and no array
PlacementArgs ==
    {Arr(Ramp), Arr(Constant15(18)), Arr([i \in 1..NSlots |-> 19 - i]),
     Arr([Ramp EXCEPT ![3] = E]), Arr([Ramp EXCEPT ![15] = 0]),
     Arr([Ramp EXCEPT ![1] = 19]), Arr(SubSeq(Ramp, 1, 14)),
     Arr(Ramp \o <<1>>), NotArr}

ImportedRace(date, p) == [date |-> date, placements |-> p, stamped |-> FALSE]

\* Imported texts: no JSON, no races, no race, valid races, a race without a
\* date, with 14 placements, with placements that is no array, and races of
\* 15 placements among which a marker or a number outside 1..18
Imports ==
    {NoJson, NoRacesJson, Json(<<>>),
     Json(<<ImportedRace("2024-04-01", Arr(Ramp))>>),
     Json(<<ImportedRace("2024-04-01", Arr(Ramp)),
            ImportedRace("2024-04-02", Arr(Constant15(1)))>>),
     Json(<<ImportedRace("", Arr(Ramp))>>),
     Json(<<ImportedRace("2024-04-01", Arr(Ramp)),
            ImportedRace("2024-04-03", Arr(SubSeq(Ramp, 1, 14)))>>),
     Json(<<ImportedRace("2024-04-01", NotArr)>>),
     Json(<<ImportedRace("2024-04-04", Arr([Ramp EXCEPT ![2] = E]))>>),
     Json(<<ImportedRace("2024-04-05", Arr([Ramp EXCEPT ![7] = 19])),
            ImportedRace("2024-04-01", Arr(Ramp))>>)}

AddRace ==
    /\ Len(getAllRaces) < MaxRaces
    /\ \E date \in Dates, p \in PlacementArgs, ok \in BOOLEAN : addRace(date, p, ok)
    /\ UNCHANGED <<pipeVars, parseVars>>

ImportData ==
    /\ \E j \in Imports, ok \in BOOLEAN : importData(j, ok)
    /\ UNCHANGED <<pipeVars, parseVars>>

ResetAllData ==
    /\ \E ok \in BOOLEAN : resetAllData(ok)
    /\ UNCHANGED <<pipeVars, parseVars>>

InitStore ==
    /\ tesseract = TRUE
    /\ InitPipeline
    /\ InitParse
    /\ InitStorage

NextStore == AddRace \/ ImportData \/ ResetAllData

SpecStore == InitStore /\ [][NextStore]_vars

-----------------------------------------------------------------------------
(* ui.js and app.js: the manual entry panel, the OCR review panel and the   *)
(* two race submissions.  The buttons of a panel can be clicked while the   *)
(* panel is visible.  updateSummaryTable only redraws the table.            *)

\* Most toasts after which a race is still submitted
MaxToasts == 3

\* What the panels and the submissions leave alone
runVars == <<tesseract, pc, file, pos, placements, ret, upl, calls, loading, order>>

\* Mutant of ShowManualEntry: the OCR review panel is not hidden
ShowManualEntryKeepsReview ==
    /\ manual' = TRUE
    /\ UNCHANGED <<review, toasts, runVars, parseVars, storeVars>>

\* showManualEntry, on a click on #btn-manual
ShowManualEntry ==
    /\ review' = [review EXCEPT !.visible = FALSE]
    /\ manual' = TRUE
    /\ UNCHANGED <<toasts, runVars, parseVars, storeVars>>

\* hideManualEntry, on a click on the panel's Cancel button
HideManualEntry ==
    /\ manual
    /\ manual' = FALSE
    /\ UNCHANGED <<review, toasts, runVars, parseVars, storeVars>>

\* hideOCRReview, on a click on #btn-cancel-ocr
HideOCRReview ==
    /\ review.visible
    /\ review' = [review EXCEPT !.visible = FALSE]
    /\ UNCHANGED <<manual, toasts, runVars, parseVars, storeVars>>

\* Mutant of NoDate: the date is not checked
NoDateNever(date) == FALSE

\* !date
NoDate(date) == date = ""

\* validatePlacements: isNaN('E') and isNaN(NaN) are true
validatePlacements(p) ==
    \A i \in 1..Len(p) : ~(IsNaN(p[i]) \/ p[i] < 1 \/ p[i] > 18)

\* addRace(date, placements) throws
addRaceThrows(p) ==
    ~p.isArray \/ Len(p.items) # 15 \/ \E i \in 1..Len(p.items) : BadPlacement(p.items[i])

SubmitToast(type) == [type |-> type, of |-> "submit"]

\* hideManualEntry or hideOCRReview
HidePanel(panel) ==
    IF panel = "manual"
    THEN manual' = FALSE /\ UNCHANGED review
    ELSE review' = [review EXCEPT !.visible = FALSE] /\ UNCHANGED manual

\* handleManualRaceSubmit and handleOCRRaceSubmit, which differ in the panel
\* they read and hide: date and p are what the panel's inputs hold, ok is
\* whether localStorage takes the item
SubmitRace(panel, date, p, ok) ==
    /\ UNCHANGED <<runVars, parseVars>>
    /\ IF NoDate(date) \/ ~validatePlacements(p)
       THEN /\ toasts' = Append(toasts, SubmitToast("error"))
            /\ UNCHANGED <<review, manual, storeVars>>
       ELSE /\ addRace(date, Arr(p), ok)
            /\ IF ~addRaceThrows(Arr(p)) /\ ok
               THEN /\ toasts' = Append(toasts, SubmitToast("success"))
                    /\ HidePanel(panel)
               ELSE /\ toasts' = Append(toasts, SubmitToast("error"))
                    /\ UNCHANGED <<review, manual>>

\* The date inputs of the panels: a date, or nothing
SubmitDates == {"2024-05-01", ""}

\* getManualPlacements: parseInt of the 15 number inputs, NaN for an empty
\* one (the marker E stands for NaN here)
ManualFields ==
    {Ramp, Constant15(E), [Ramp EXCEPT ![3] = E], [Ramp EXCEPT ![15] = 0],
     [Ramp EXCEPT ![1] = 19]}

\* getOCRPlacements: the 15 selects as showOCRReview filled them, or with
\* one of them set to 'E'
OCRFields == {review.values, [review.values EXCEPT ![3] = E]}

SubmitManual ==
    /\ manual
    /\ Len(toasts) < MaxToasts /\ Len(getAllRaces) < MaxRaces
    /\ \E date \in SubmitDates, p \in ManualFields, ok \in BOOLEAN :
           SubmitRace("manual", date, p, ok)

SubmitOCR ==
    /\ review.visible
    /\ Len(toasts) < MaxToasts /\ Len(getAllRaces) < MaxRaces
    /\ \E date \in SubmitDates, p \in OCRFields, ok \in BOOLEAN :
           SubmitRace("ocr", date, p, ok)

\* Arguments of a direct call of addRace
DirectArgs ==
    {Arr(Ramp), Arr([Ramp EXCEPT ![3] = E]), Arr([Ramp EXCEPT ![1] = 19]),
     Arr(SubSeq(Ramp, 1, 14)), NotArr}

\* addRace is called with a date and placements no handler has checked
AddRaceDirect ==
    /\ Len(getAllRaces) < MaxRaces
    /\ \E date \in SubmitDates, p \in DirectArgs, ok \in BOOLEAN : addRace(date, p, ok)
    /\ UNCHANGED <<pipeVars, parseVars>>

\* Uploads whose run is one whole-image call that throws, finds all 15
\* placements or finds none, and one that does not decode
PanelFiles ==
    {[BaseFile EXCEPT !.w = 120, !.h = 240, !.whole = wo] :
        wo \in {Throws, Resolves(Data(TxLine, WsGrid)), Resolves(Data(<<>>, <<>>))}}
    \cup {[BaseFile EXCEPT !.decodes = FALSE]}

NextPanels ==
    \/ ShowManualEntry
    \/ HideManualEntry
    \/ HideOCRReview
    \/ SubmitManual
    \/ SubmitOCR
    \/ AddRaceDirect
    \/ \E f \in PanelFiles : Upload("A", f)
    \/ ImageLoaded("A")
    \/ WholeRecognized("A")

SpecPanels == InitStore /\ [][NextPanels]_vars

-----------------------------------------------------------------------------
(* Properties *)

Returned(u) == ret[u].kind = "returned"

\* The per-region pass of u's run has returned its array
RegionsReturned(u) == pos[u].index = NSlots

\* Attempt n of region index reads a ranking
RegionReads(f, index, n) ==
    LET out == RecognizeRegion(f, index, n)
    IN  ~out.throws /\ Truthy(detectRankingFromText(Trim(out.text)))

\* Some attempt of region index reads a ranking
RegionHasCandidate(f, index) ==
    \E n \in 0..(PerRegion - 1) : RegionReads(f, index, n)

\* The in-range ordinal matches of a text, in scan order
TextCandidates(text) == ScanLines(SplitLines(text), 1)

\* Slot i (0..14) of a recognition result with words has a candidate
SlotHasWord(data, i) ==
    \E k \in 1..Len(WordsOf(data)) :
        /\ Accepted(WordsOf(data)[k], imageHeight(data))
        /\ GridIndex(WordsOf(data)[k], imageWidth(data), imageHeight(data)) = i

\* C1: every array the pipeline returns has exactly 15 entries: the array of
\* the per-region pass, and the array processImageWithOCR returns, whether it
\* is the per-region array, the positional mapping or the text-only parse,
\* with no candidate at all or with more than 15 of them.
C1_Returns15 ==
    \A u \in Uploads :
        /\ Returned(u) => Len(ret[u].value) = 15
        /\ RegionsReturned(u) => Len(placements[u]) = 15

\* C1 witness: the text-only parse of a text with 18 in-range ordinals returned
C1_Witness ==
    /\ Returned("A")
    /\ RecognizeWhole(file["A"]) = Resolves(Data(TxMany, <<>>))
    /\ Len(TextCandidates(TxMany)) = 18

\* C2: every entry of a returned PlacementSet is an integer in 1..18 or the
\* marker E, on every path of the ladder, whatever digits the engine read.
C2_EntriesInRange ==
    \A u \in Uploads :
        Returned(u) =>
            \A i \in 1..Len(ret[u].value) :
                ret[u].value[i] = E \/ ret[u].value[i] \in 1..18

\* C2 witness: five regions read "99" and the accepted array holds 18 there
C2_Witness ==
    /\ Returned("A")
    /\ file["A"].good = 0..4 /\ ~file["A"].own /\ file["A"].tok = <<"9", "9">>
    /\ calls["A"].whole = 0
    /\ \A i \in 1..5 : ret["A"].value[i] = 18

\* Every call of the run of file f resolves, and none of them holds a candidate
NoCandidateAnywhere(f) ==
    /\ f.isImage /\ f.decodes /\ f.blobFail = -1 /\ f.pre = "nocand"
    /\ \A i \in 0..(NSlots - 1) : ~RegionHasCandidate(f, i)
    /\ ~RecognizeWhole(f).throws
    /\ \A i \in 0..(NSlots - 1) : ~SlotHasWord(RecognizeWhole(f).data, i)
    /\ Len(WordsOf(RecognizeWhole(f).data)) = 0
           => Len(TextCandidates(RecognizeWhole(f).data.text)) = 0

\* C3: a slot without a candidate holds E in the returned array (a region no
\* attempt of which reads a ranking; a grid cell no accepted word maps to; a
\* slot past the last ordinal of the text), and a run whose calls all resolve
\* without any candidate returns 15 E instead of throwing.
C3_UnknownWithoutCandidate ==
    \A u \in Uploads :
        /\ (Returned(u) /\ calls[u].whole = 0) =>
               \A i \in 0..(NSlots - 1) :
                   ~RegionHasCandidate(file[u], i) => ret[u].value[i + 1] = E
        /\ (Returned(u) /\ calls[u].whole = 1
                /\ Len(WordsOf(RecognizeWhole(file[u]).data)) > 0) =>
               \A i \in 0..(NSlots - 1) :
                   ~SlotHasWord(RecognizeWhole(file[u]).data, i)
                       => ret[u].value[i + 1] = E
        /\ (Returned(u) /\ calls[u].whole = 1
                /\ Len(WordsOf(RecognizeWhole(file[u]).data)) = 0) =>
               \A i \in 1..Len(ret[u].value) :
                   i > Len(TextCandidates(RecognizeWhole(file[u]).data.text))
                       => ret[u].value[i] = E
        /\ (tesseract /\ pc[u] = "done" /\ NoCandidateAnywhere(file[u])) =>
               Returned(u) /\ ret[u].value = [i \in 1..15 |-> E]

\* C3 witness: 360 region calls and the whole-image call resolved without a
\* candidate, and the run returned
C3_Witness ==
    /\ pc["A"] = "done" /\ NoCandidateAnywhere(file["A"])
    /\ calls["A"].region = NSlots * PerRegion /\ calls["A"].whole = 1
    /\ Returned("A")

\* C4: once the per-region pass has returned, at least 5 numeric slots mean
\* that its array is the result and no whole-image call is made, fewer mean
\* exactly one whole-image call; that call is never issued before the
\* per-region pass has returned, and then every region that can read has read.
C4_AcceptanceCheck ==
    \A u \in Uploads :
        /\ calls[u].whole <= 1
        /\ calls[u].whole >= 1 =>
               /\ RegionsReturned(u)
               /\ \A i \in 0..(NSlots - 1) :
                      (RegionHasCandidate(file[u], i)
                       /\ ~TooSmall(file[u].w, file[u].h)) => placements[u][i + 1] # E
        /\ RegionsReturned(u) =>
               IF nonDefault(placements[u]) >= 5
               THEN calls[u].whole = 0 /\ Returned(u) /\ ret[u].value = placements[u]
               ELSE calls[u].whole = 1

\* C4 witness: a per-region array with exactly 5 numeric slots was accepted
C4_Witness ==
    /\ RegionsReturned("A") /\ nonDefault(placements["A"]) = 5
    /\ Returned("A") /\ calls["A"].whole = 0

\* B was uploaded while A's run was in flight
Overlapped(a, b) ==
    /\ Len(order) = 2
    /\ order[1].u = a /\ order[2].u = b /\ a \in order[2].during

\* C5 as claimed: when B is uploaded while A's run is in flight and both runs
\* have finished, the review panel holds B's PlacementSet.
C5_PanelShowsLatestUpload ==
    \A a, b \in Uploads :
        (Overlapped(a, b) /\ pc[a] = "done" /\ pc[b] = "done"
            /\ upl[b].kind = "array")
        => review.values = showOCRReview(b, upl[b].value).values

\* The engine throws on every per-region call and on the whole-image call
EngineAlwaysThrows(f) ==
    /\ f.isImage /\ f.decodes /\ f.blobFail = -1 /\ ~TooSmall(f.w, f.h)
    /\ \A i \in 0..(NSlots - 1) : \A n \in 0..(PerRegion - 1) :
           RecognizeRegion(f, i, n).throws
    /\ RecognizeWhole(f).throws

\* C6 as claimed: when every per-region call and the whole-image call throw,
\* the run still returns a PlacementSet instead of raising an error.
C6_AllThrowStillReturns ==
    \A u \in Uploads :
        (tesseract /\ pc[u] = "done" /\ EngineAlwaysThrows(file[u])) => Returned(u)

\* Every call of region index throws
RegionAlwaysThrows(f, index) ==
    \A n \in 0..(PerRegion - 1) : RecognizeRegion(f, index, n).throws

\* u's run resumes from a region call that throws
ResumesFromThrow(u) ==
    /\ pc[u] = "recognize"
    /\ RecognizeRegion(file[u], pos[u].index, pos[u].n).throws
    /\ <<pc[u], pos[u]>> # <<pc'[u], pos'[u]>>

\* The step a throwing region call leads to: no error leaves the pipeline,
\* the next combination of the region follows, after the last one the next
\* region, after the last region the acceptance check
AbsorbedStep(u) ==
    /\ ret'[u].kind # "threw" /\ upl'[u].kind # "null"
    /\ placements'[u] = placements[u]
    /\ pos[u].n < PerRegion - 1 =>
           /\ pos'[u] = [index |-> pos[u].index, n |-> pos[u].n + 1]
           /\ pc'[u] = IF PsmOf(pos[u].n) < 3 THEN "recognize" ELSE "blob"
    /\ (pos[u].n = PerRegion - 1 /\ pos[u].index < NSlots - 1) =>
           pos'[u] = [index |-> pos[u].index + 1, n |-> 0] /\ pc'[u] = "blob"
    /\ (pos[u].n = PerRegion - 1 /\ pos[u].index = NSlots - 1) =>
           RegionsReturned(u)' /\ pc'[u] \in {"whole", "done"}

\* C7: a region call that throws never aborts the pipeline: the run goes on
\* with the next band/scale/mode combination, then with the next region, and
\* a region whose calls all throw is E in the array of the per-region pass.
C7_RegionThrowAbsorbed ==
    /\ [][\A u \in Uploads : ResumesFromThrow(u) => AbsorbedStep(u)]_vars
    /\ [](\A u \in Uploads : \A i \in 0..(NSlots - 1) :
             (RegionsReturned(u) /\ RegionAlwaysThrows(file[u], i))
                 => placements[u][i + 1] = E)

\* C7 witness: region 0 threw 24 times and is E, region 2 threw and then read
C7_Witness ==
    /\ RegionsReturned("A")
    /\ RegionAlwaysThrows(file["A"], 0) /\ placements["A"][1] = E
    /\ RecognizeRegion(file["A"], 2, 0).throws /\ placements["A"][3] # E

\* The toasts of upload u, of one type
ToastsOf(u, type) ==
    Cardinality({k \in 1..Len(toasts) : toasts[k] = [type |-> type, of |-> u]})

\* C8: with Tesseract undefined an upload ends with exactly one toast, an
\* error; handleImageUpload resolves to null; the review panel is never
\* handed a PlacementSet; the loading indicator is hidden again.
C8_EngineUnavailable ==
    ~tesseract =>
        /\ review.of = "none" /\ ~review.visible
        /\ \A u \in Uploads :
               /\ upl[u].kind \in {"pending", "null"}
               /\ pc[u] = "done" =>
                      /\ ToastsOf(u, "error") = 1 /\ ToastsOf(u, "success") = 0
                      /\ upl[u].kind = "null"
                      /\ ~loading

\* C8 witness: an image file was uploaded with Tesseract undefined
C8_Witness ==
    ~tesseract /\ pc["A"] = "done" /\ file["A"].isImage /\ ret["A"].kind = "threw"

\* C9 as claimed: when an ordinal word and a bare-number word with different
\* values are mapped to one slot, in either order, the slot holds the
\* ordinal's value.
C9_OrdinalBeatsBareNumber ==
    (pin.kind = "words" /\ pout.done /\ Len(pin.data.words) = 2) =>
        \A k \in 1..2 :
            LET o == pin.data.words[k]
                b == pin.data.words[3 - k]
                W == imageWidth(pin.data)
                H == imageHeight(pin.data)
            IN  (/\ Accepted(o, H) /\ Accepted(b, H)
                 /\ WordType(Trim(o.text)) = "ordinal"
                 /\ WordType(Trim(b.text)) = "standalone"
                 /\ GridIndex(o, W, H) = GridIndex(b, W, H)
                 /\ WordRank(Trim(o.text)) # WordRank(Trim(b.text)))
                => pout.value[GridIndex(o, W, H) + 1] = WordRank(Trim(o.text))

\* C10: the text-only parser gives back every array of 15 placements in
\* 1..18 that is rendered as clean ordinal tokens, 5 to a line on 3 lines or
\* all 15 on one line.
C10_RoundTrip ==
    (pin.kind = "render" /\ pout.done) => pout.value = pin.P

\* C10 witness: a 3-line rendering of an array that is not sorted and has
\* repeated values was parsed
C10_Witness ==
    /\ pin.kind = "render" /\ pout.done /\ pin.perLine = 5
    /\ pin.P[1] > pin.P[2] /\ pin.P[1] = pin.P[7]
    /\ Len(SplitLines(pin.text)) = 3

\* m comes before o by (line number, offset within the line)
ScanBefore(m, o) == m.line < o.line \/ (m.line = o.line /\ m.index < o.index)

\* How many of the matches cs come before cs[k] in scan order
MatchesBefore(cs, k) ==
    Cardinality({j \in 1..Len(cs) : ScanBefore(cs[j], cs[k])})

\* C11: the text-only parser puts the in-range ordinal match that has i
\* matches before it by (line, offset) into slot i, for i < 15; matches from
\* the 16th on are dropped; the slots from the number of matches on are E.
C11_TextAssignment ==
    (pin.kind \in {"text", "render"} /\ pout.done) =>
        LET cs == TextCandidates(pin.text)
        IN  /\ Len(pout.value) = 15
            /\ \A k \in 1..Len(cs) :
                   MatchesBefore(cs, k) < 15
                       => pout.value[MatchesBefore(cs, k) + 1] = cs[k].placement
            /\ \A i \in 1..15 : i > Len(cs) => pout.value[i] = E

\* C11 witness: a text with four in-range ordinals on three of its four
\* lines, among out-of-range ones, was parsed
C11_Witness ==
    /\ pin.kind = "text" /\ pout.done /\ pin.text = TxScatter
    /\ Len(TextCandidates(TxScatter)) = 4
    /\ Len(SplitLines(TxScatter)) = 4
    /\ pout.value[4] # E /\ pout.value[5] = E

C13_StoredPlacementsValid ==
    \A k \in 1..Len(getAllRaces) :
        /\ Len(getAllRaces[k].placements) = 15
        /\ \A i \in 1..Len(getAllRaces[k].placements) :
               getAllRaces[k].placements[i] \in 1..18

\* C14: a word the whole-image pass accepts, centred on (x, y) in an image of
\* width W and height H whose ranking band is [0.45 H, 0.75 H], is written to
\* slot clamp(row * 5 + col, 0, 14), col = floor(5 x / W) and
\* row = floor(3 (y - 0.45 H) / (0.3 H)); the slot is in 0..14 and no other
\* slot is written.  (2x = x0 + x1 and 2y = y0 + y1.)
C14_SpatialMapper ==
    (pin.kind = "words" /\ pout.done /\ Len(pin.data.words) = 1) =>
        LET w == pin.data.words[1]
            W == imageWidth(pin.data)
            H == imageHeight(pin.data)
        IN  Accepted(w, H) =>
                \E col \in -10..10, row \in -10..10 :
                    /\ col * 2 * W <= 5 * (w.x0 + w.x1)
                    /\ 5 * (w.x0 + w.x1) < (col + 1) * 2 * W
                    /\ row * 2 * H <= 10 * (w.y0 + w.y1) - 9 * H
                    /\ 10 * (w.y0 + w.y1) - 9 * H < (row + 1) * 2 * H
                    /\ LET slot == Max(0, Min(14, row * 5 + col))
                       IN  /\ slot \in 0..14
                           /\ pout.value =
                                  [i \in 1..15 |->
                                      IF i = slot + 1 THEN WordRank(Trim(w.text)) ELSE E]

\* C14 witness: a word right of the image in the last row was mapped; its
\* index 10 + 6 is clamped to 14
C14_Witness ==
    /\ pin.kind = "words" /\ pout.done /\ Len(pin.data.words) = 1
    /\ pin.data.width = 0
    /\ pin.data.words[1].x0 = 1500 /\ pin.data.words[1].y0 = 1568
    /\ pout.value[15] = 7

\* The digits of a text, in order
DigitPart(text) == SelectSeq(text, LAMBDA c : c \in Digit)

\* The only word of the parser's input
OnlyWord == pin.data.words[1]

\* C15 as claimed: no extractor yields a placement from a parsed integer
\* outside 1..18; detectRankingFromText too gives null for such a token.
C15_AllExtractorsDiscard ==
    pout.done =>
        /\ (pin.kind = "detect" /\ pout.value # null)
               => parseInt(DigitPart(pin.text)) \in 1..18
        /\ (pin.kind = "words" /\ Len(pin.data.words) = 1
                /\ WordRank(Trim(OnlyWord.text)) \notin 1..18)
               => pout.value = EmptyPlacements

\* C15: the three patterns of parseOCRWithPositions, the ordinal pattern of
\* parseOCRTextFallback and both patterns of extractNumbersFromRegionText
\* discard a parsed integer outside 1..18; detectRankingFromText does not: a
\* token of one or two digits that one of its patterns takes yields
\* min(18, max(1, n)), so 0 gives 1 and 19..99 give 18.
C15_DiscardOrClamp ==
    pout.done =>
        /\ (pin.kind = "words" /\ Len(pin.data.words) = 1
                /\ WordRank(Trim(OnlyWord.text)) \notin 1..18)
               => pout.value = EmptyPlacements
        /\ (pin.kind = "text" /\ Len(SplitLines(pin.text)) = 1)
               => LET all == {i \in 1..Len(pin.text) : OrdinalAt(pin.text, i)}
                      inRange == {i \in all :
                                     parseInt(Captured(pin.text, i)) \in 1..18}
                  IN  /\ Cardinality({k \in 1..15 : pout.value[k] # E})
                             = Min(15, Cardinality(inRange))
                      /\ \A k \in 1..15 : pout.value[k] # E =>
                             \E i \in inRange :
                                 parseInt(Captured(pin.text, i)) = pout.value[k]
        /\ pin.kind = "extract"
               => \A k \in 1..Len(pout.value.numbers) :
                      /\ pout.value.numbers[k].value \in 1..18
                      /\ \E i \in 1..Len(pin.text) :
                             /\ RunStart(pin.text, i)
                             /\ parseInt(Captured(pin.text, i))
                                    = pout.value.numbers[k].value
        /\ (pin.kind = "detect" /\ pout.value # null)
               => /\ Len(DigitPart(pin.text)) \in 1..2
                  /\ pout.value = Min(18, Max(1, parseInt(DigitPart(pin.text))))

\* C15 witness: detectRankingFromText was called on "99" and gave 18
C15_Witness ==
    /\ pin.kind = "detect" /\ pout.done
    /\ pin.text = <<"9", "9">> /\ parseInt(DigitPart(pin.text)) = 99
    /\ pout.value = 18

\* u's run is in flight
InFlight(u) == pc[u] \in {"decode", "blob", "recognize", "whole"}

\* C16: a run issues at most 24 recognition calls for a region, at most 360
\* for the 15 regions and at most one whole-image call, and when every event
\* it waits for is delivered it ends, returning or throwing.
C16_BoundedAndTerminates ==
    /\ [](\A u \in Uploads :
             /\ \A i \in 0..14 : calls[u].at[i] <= 24
             /\ calls[u].region <= 360
             /\ calls[u].whole <= 1)
    /\ (InFlight("A") ~> pc["A"] = "done")

\* C16 witness: a run ended after 24 calls for each of the 15 regions and
\* the whole-image call
C16_Witness ==
    /\ pc["A"] = "done"
    /\ \A i \in 0..14 : calls["A"].at[i] = 24
    /\ calls["A"].region = 360 /\ calls["A"].whole = 1

\* C17 as claimed: when two words of the same match type with different
\* values are mapped to one slot, the slot holds the value of the word found
\* first.
C17_FirstFoundKept ==
    (pin.kind = "words" /\ pout.done /\ Len(pin.data.words) = 2) =>
        LET first == pin.data.words[1]
            second == pin.data.words[2]
            W == imageWidth(pin.data)
            H == imageHeight(pin.data)
        IN  (/\ Accepted(first, H) /\ Accepted(second, H)
             /\ WordType(Trim(first.text)) = WordType(Trim(second.text))
             /\ GridIndex(first, W, H) = GridIndex(second, W, H)
             /\ WordRank(Trim(first.text)) # WordRank(Trim(second.text)))
            => pout.value[GridIndex(first, W, H) + 1] = WordRank(Trim(first.text))

\* The number captured by the first of the three per-word patterns that
\* matches the text, in the order ordinal, bracket-like, bare number
FirstPatternValue(text) ==
    IF HasOrdinal(text) THEN parseInt(Captured(text, FirstOrdinal(text)))
    ELSE IF HasMisread(text) THEN parseInt(Captured(text, FirstMisread(text)))
    ELSE IF Len(text) \in 1..2 /\ AllDigits(text) THEN parseInt(text)
    ELSE null

\* C18 as claimed: for one text unit the first pattern that matches, in the
\* order ordinal, bracket-like, bare number, decides the candidate: a single
\* word in the ranking area puts that pattern's number in its slot when it is
\* in 1..18 and leaves the slot unknown otherwise, and detectRankingFromText
\* returns 3 for "3]".
C18_FirstPatternDecides ==
    /\ (pin.kind = "detect" /\ pout.done /\ pin.text = <<"3", "]">>)
           => pout.value = 3
    /\ (pin.kind = "words" /\ pout.done /\ Len(pin.data.words) = 1) =>
           LET w == pin.data.words[1]
               W == imageWidth(pin.data)
               H == imageHeight(pin.data)
               v == FirstPatternValue(Trim(w.text))
           IN  (w.hasBox /\ InRankingArea(w, H)) =>
                   pout.value[GridIndex(w, W, H) + 1] = IF ValidRank(v) THEN v ELSE E

\* The words of a recognition result in the first of the three shapes
\* (words, lines[].words, paragraphs[].lines[].words) that holds any
AvailableWords(data) ==
    LET inLines == IF data.hasLines THEN Flatten(data.lines) ELSE <<>>
        inParagraphs ==
            IF data.hasParagraphs
            THEN Flatten([p \in 1..Len(data.paragraphs) |->
                             Flatten(data.paragraphs[p])])
            ELSE <<>>
    IN  IF Len(data.words) > 0 THEN data.words
        ELSE IF Len(inLines) > 0 THEN inLines
        ELSE inParagraphs

\* The whole-image call of u's run has resolved and the run has returned
WholeParsed(u) ==
    /\ pc[u] = "done" /\ Returned(u)
    /\ calls[u].whole = 1 /\ ~RecognizeWhole(file[u]).throws

\* C19 as claimed: the array returned after the whole-image call is the
\* positional mapping of the words when the result holds words in any of the
\* three shapes, and the text-only parse of its text when it holds none.
C19_TextOnlyIffNoWords ==
    \A u \in Uploads :
        WholeParsed(u) =>
            LET data == RecognizeWhole(file[u]).data
            IN  ret[u].value =
                    IF Len(AvailableWords(data)) > 0
                    THEN MapRankings(AvailableWords(data), imageWidth(data),
                                     imageHeight(data), EmptyPlacements)
                    ELSE parseOCRTextFallback(data.text)

\* Combination a comes before combination b in the order band (outer), scale,
\* mode (inner)
ComesBefore(a, b) ==
    \/ BandOf(a) < BandOf(b)
    \/ BandOf(a) = BandOf(b) /\ ScaleOf(a) < ScaleOf(b)
    \/ BandOf(a) = BandOf(b) /\ ScaleOf(a) = ScaleOf(b) /\ PsmOf(a) < PsmOf(b)

\* The combinations of a region of f that are tried if none before them reads
Tried(f) == {n \in 0..(PerRegion - 1) : ~BandSkipped(f.w, f.h, BandOf(n))}

\* The combinations of region index that read a ranking when they are tried
Successful(f, index) == {n \in Tried(f) : RegionReads(f, index, n)}

\* The first of a non-empty set of combinations
FirstOf(ns) == CHOOSE n \in ns : \A m \in ns : m = n \/ ComesBefore(n, m)

\* The per-region pass of u's run leaves region index in this step
Leaves(u, index) ==
    /\ pc[u] = "recognize" /\ pos[u].index = index
    /\ (pos'[u].index > index \/ pc'[u] = "done")

\* C20: when the per-region pass leaves a region of which some combination
\* reads a ranking, the calls issued for the region are the combinations up
\* to the first one that does, in the order band, scale, mode, and the slot
\* holds what that combination read; and in no later step is a call issued
\* for a region the pass has left, or its slot rewritten.
C20_ShortCircuit ==
    [][\A u \in Uploads : \A index \in 0..(NSlots - 1) :
          /\ (pc[u] # "idle" /\ index < pos[u].index) =>
                 /\ calls'[u].at[index] = calls[u].at[index]
                 /\ placements'[u][index + 1] = placements[u][index + 1]
          /\ Leaves(u, index) =>
                 LET f == file[u]
                     ns == Successful(f, index)
                     n0 == FirstOf(ns)
                 IN  ns # {} =>
                         /\ calls'[u].at[index] =
                                Cardinality({m \in Tried(f) :
                                                m = n0 \/ ComesBefore(m, n0)})
                         /\ placements'[u][index + 1] =
                                detectRankingFromText(
                                    Trim(RecognizeRegion(f, index, n0).text))]_vars

\* C20 witness: a run has ended in which a region read a ranking at its
\* fourth combination only, later combinations would have read another
\* value, and four calls were issued for it
C20_Witness ==
    /\ pc["A"] = "done"
    /\ \E index \in 0..(NSlots - 1) :
           /\ index < pos["A"].index
           /\ ~TooSmall(file["A"].w, file["A"].h)
           /\ Successful(file["A"], index) # {}
           /\ FirstOf(Successful(file["A"], index)) = 3
           /\ calls["A"].at[index] = 4
           /\ \E m \in 4..(PerRegion - 1) :
                  /\ RegionReads(file["A"], index, m)
                  /\ detectRankingFromText(Trim(RecognizeRegion(file["A"], index, m).text))
                         # placements["A"][index + 1]

\* The inner crop width or the cell height of image f is below 20 pixels
CellBelow20(f) == innerW(f.w) < 20 \/ regionH(f.h) < 20

\* C21: when the inner crop width or the cell height of an image is below 20
\* pixels, no recognition call is ever issued for a region and every slot of
\* the per-region array stays unknown; the per-region pass that starts when
\* the image has loaded runs through all 15 regions and returns without an
\* exception, so that the run goes on to the whole-image call.
C21_TooSmallSkipped ==
    /\ [](\A u \in Uploads :
             (pc[u] # "idle" /\ CellBelow20(file[u])) =>
                 /\ calls[u].region = 0
                 /\ \A index \in 0..(NSlots - 1) : calls[u].at[index] = 0
                 /\ placements[u] \in {<<>>, EmptyPlacements})
    /\ [][\A u \in Uploads :
             (/\ pc[u] = "decode" /\ pc'[u] # "decode"
              /\ file[u].decodes /\ CellBelow20(file[u])) =>
                 /\ pos'[u].index = NSlots
                 /\ placements'[u] = EmptyPlacements
                 /\ pc'[u] = "whole" /\ ret'[u].kind = "pending"]_vars

\* C21 witness: a run on an image whose cells are less than 20 pixels high
\* has returned after the whole-image call, with no call for a region
C21_Witness ==
    /\ pc["A"] = "done" /\ Returned("A")
    /\ regionH(file["A"].h) < 20 /\ innerW(file["A"].w) >= 20
    /\ calls["A"].region = 0 /\ calls["A"].whole = 1
    /\ placements["A"] = EmptyPlacements

ClampedToken(t) ==
    \E d \in 1..2 :
        /\ d <= Len(t) /\ AllDigits(SubSeq(t, 1, d))
        /\ LET rest == SubSeq(t, d + 1, Len(t))
           IN  \/ rest = <<>>
               \/ Len(rest) = 2 /\ <<Lower(rest[1]), Lower(rest[2])>> \in Suffixes
               \/ Len(rest) >= 1 /\ \A k \in 1..Len(rest) : rest[k] \in {"]", ")", "|", "!"}

\* C23: detectRankingFromText gives min(18, max(1, n)) for a text that, white
\* space removed, is a digit part of 1 or 2 digits of value n followed by
\* nothing, an ordinal suffix or bracket-like characters, and null for every
\* other text: a digit part of 3 or more digits, or anything else besides.
C23_ClampingPolicy ==
    (pin.kind = "detect" /\ pout.done) =>
        LET t == StripSpace(pin.text)
            n == parseInt(SubSeq(t, 1, RunEnd(t, 1) - 1))
        IN  IF ClampedToken(t)
            THEN pout.value = Min(18, Max(1, n))
            ELSE pout.value = null

\* C23 witness: detectRankingFromText was called on "00]" and gave 1, the
\* digit part having two digits of value 0
C23_Witness ==
    /\ pin.kind = "detect" /\ pout.done
    /\ pin.text = <<"0", "0", "]">> /\ ClampedToken(StripSpace(pin.text))
    /\ pout.value = 1

\* One of 15 fields is Unknown or not a number (the marker E) or outside 1..18
SomeFieldBad(p) == \E i \in 1..Len(p) : p[i] = E \/ p[i] \notin 1..18

\* The step is a submission from the panel with a date and fields that are
\* to be rejected; the step leaves the stored races and the panels as they are
RejectedSubmissionKept(panel, fields) ==
    \A date \in SubmitDates, p \in fields, ok \in BOOLEAN :
        (SubmitRace(panel, date, p, ok) /\ (date = "" \/ SomeFieldBad(p)))
        => (stored' = stored /\ manual' = manual /\ review' = review)

C30_PanelExclusion == ~(manual /\ review.visible)

\* C30 witness: the manual entry panel is visible after the OCR review panel
\* has been filled for an upload, and a submission has been made
C30_Witness ==
    /\ manual /\ ~review.visible /\ review.of = "A"
    /\ \E k \in 1..Len(toasts) : toasts[k].of = "submit"

\* C25 as claimed: the loading indicator is visible exactly while at least
\* one run of processImageWithOCR is in flight, two overlapping uploads
\* included.
C25_LoadingWhileInFlight == loading = (\E u \in Uploads : InFlight(u))

\* The centre of word w lies inside the rectangle processFocusedRankRegions
\* crops for cell (row, col) of an image W wide and H high
CentreInCell(w, row, col, W, H) ==
    /\ w.x0 + w.x1 >= 2 * col * regionW(W)
    /\ w.x0 + w.x1 < 2 * (col + 1) * regionW(W)
    /\ w.y0 + w.y1 >= 2 * (gridTop(H) + row * regionH(H))
    /\ w.y0 + w.y1 < 2 * (gridTop(H) + (row + 1) * regionH(H))

\* C26 as claimed: a single recognised word with a rank in 1..18 whose centre
\* lies inside the rectangle of cell (row, col) of the per-region pass is
\* mapped by the whole-image pass to slot row * 5 + col.
C26_SameGridBand ==
    (pin.kind = "words" /\ pout.done /\ Len(pin.data.words) = 1) =>
        LET w == pin.data.words[1]
            W == imageWidth(pin.data)
            H == imageHeight(pin.data)
        IN  \A row \in 0..(rows - 1), col \in 0..(cols - 1) :
                (/\ w.hasBox /\ ValidRank(WordRank(Trim(w.text)))
                 /\ CentreInCell(w, row, col, W, H))
                => pout.value[row * cols + col + 1] = WordRank(Trim(w.text))

\* C27 as claimed: a single word the whole-image pass accepts, with its
\* centre abscissa in [0, imageWidth), has its row in 0..2 and is written to
\* the slot of its column and row: the clamp does not move it.
C27_ClampMovesNothing ==
    (pin.kind = "words" /\ pout.done /\ Len(pin.data.words) = 1) =>
        LET w == pin.data.words[1]
            W == imageWidth(pin.data)
            H == imageHeight(pin.data)
        IN  (Accepted(w, H) /\ w.x0 + w.x1 >= 0 /\ w.x0 + w.x1 < 2 * W)
            => /\ ColOf(w, W) \in 0..(cols - 1)
               /\ RowOf(w, H) \in 0..(rows - 1)
               /\ pout.value[RowOf(w, H) * cols + ColOf(w, W) + 1]
                      = WordRank(Trim(w.text))

\* C28: when the per-region pass resolves fewer than 5 slots and the run
\* returns, the array returned is what parseOCRWithPositions makes of the
\* whole-image result alone, whatever the per-region pass resolved.
C28_RegionValuesNotMerged ==
    \A u \in Uploads :
        (Returned(u) /\ RegionsReturned(u) /\ nonDefault(placements[u]) < 5) =>
            /\ calls[u].whole = 1
            /\ ret[u].value = parseOCRWithPositions(RecognizeWhole(file[u]).data)

\* C28 witness: a run returned in which the per-region pass resolved 4 slots;
\* in the result one of them is unknown and another holds a different value
C28_Witness ==
    /\ Returned("A") /\ RegionsReturned("A") /\ nonDefault(placements["A"]) = 4
    /\ \E i \in 1..NSlots :
           placements["A"][i] \in 1..18 /\ ret["A"].value[i] = E
    /\ \E i \in 1..NSlots :
           /\ placements["A"][i] \in 1..18 /\ ret["A"].value[i] \in 1..18
           /\ ret["A"].value[i] # placements["A"][i]

\* Word w has a bounding box whose centre ordinate is within 0.45 H .. 0.75 H
BoxInBand(w, H) ==
    w.hasBox /\ 20 * (w.y0 + w.y1) >= 18 * H /\ 2 * (w.y0 + w.y1) <= 3 * H

\* C29: in positional mode the words without a bounding box and the words
\* whose centre is outside the ranking band change no slot, whatever their
\* text: the result is the one the remaining words give by themselves.
C29_OutsideWordsIgnored ==
    (pin.kind = "words" /\ pout.done /\ Len(pin.data.words) > 0) =>
        LET W == imageWidth(pin.data)
            H == imageHeight(pin.data)
            inside == SelectSeq(pin.data.words, LAMBDA w : BoxInBand(w, H))
        IN  pout.value = MapRankings(inside, W, H, EmptyPlacements)

\* C29 witness: of two words with a rank in 1..18 the first is outside the
\* band or without a box, and only the second is in the result
C29_Witness ==
    /\ pin.kind = "words" /\ pout.done /\ Len(pin.data.words) = 2
    /\ ~BoxInBand(pin.data.words[1], imageHeight(pin.data))
    /\ BoxInBand(pin.data.words[2], imageHeight(pin.data))
    /\ ValidRank(WordRank(Trim(pin.data.words[1].text)))
    /\ ValidRank(WordRank(Trim(pin.data.words[2].text)))
    /\ WordRank(Trim(pin.data.words[1].text)) # WordRank(Trim(pin.data.words[2].text))
    /\ Cardinality({i \in 1..NSlots : pout.value[i] # E}) = 1
    /\ \E i \in 1..NSlots : pout.value[i] = WordRank(Trim(pin.data.words[2].text))

====
